---- MODULE Spec2Model ----
(***************************************************************************)
(* BIOETHICARE 360 (src/app.py): the scalar coercion safe_int, the case    *)
(* record CasoBioetico, the Gemini call llamar_gemini, the consensus chart *)
(* data of generar_visualizaciones_avanzadas, and the Streamlit script as  *)
(* a state machine over st.session_state and the Firestore collection.     *)
(***************************************************************************)
EXTENDS Integers, Sequences, FiniteSets, TLC

VARIABLES
    call,       \* the last direct call of a function of app.py: [fn, args.., res]
    prev,       \* the last CasoBioetico built with no identifier supplied
    now,        \* int(datetime.now().timestamp())
    perspectivas,   \* the three stakeholders' scores (caso.perspectivas)
    moves,          \* how many sliders were moved off their default
    charts,         \* what generar_visualizaciones_avanzadas returned
    ss,         \* st.session_state
    store,      \* the Firestore collection casos_bioeticare360: id -> document
    db,         \* whether initialize_firebase() returned a client (else None)
    api_key,    \* whether GEMINI_API_KEY is set
    run,        \* the current (or last) run of the script: position and record
    rendered,   \* the widgets the current (or last) run has rendered
    inp         \* the widget event the current (or last) run was started on

pureVars == <<call, prev, now>>
statsVars == <<perspectivas, moves, charts>>
sessVars == <<ss, store, db, api_key, run, rendered, inp>>
vars == <<call, prev, now, perspectivas, moves, charts,
          ss, store, db, api_key, run, rendered, inp>>

(***************************************************************************)
(* Bounds of the model.                                                    *)
(***************************************************************************)
MaxStrLen == 3      \* longest text handed to safe_int directly
MaxFieldLen == 2    \* longest text in a numeric field handed to CasoBioetico
MaxTime == 2        \* the clock runs over 0..MaxTime
MaxMoves == 3       \* sliders moved off their default before a chart is made
MaxChat == 2        \* no question is asked once the chat holds this many turns

(***************************************************************************)
(* Python values.  Text is a sequence of one-character strings.            *)
(***************************************************************************)
None == [t |-> "none"]
Absent == [t |-> "absent"]      \* the key is not in the mapping
StrV(s) == [t |-> "str", v |-> s]
IntV(n) == [t |-> "int", v |-> n]
BoolV(b) == [t |-> "bool", v |-> b]
\* A finite float is held as its number of halves: FloatFin(7) is 3.5.
FloatFin(h) == [t |-> "float", kind |-> "fin", v |-> h]
FloatNaN == [t |-> "float", kind |-> "nan"]
FloatInf == [t |-> "float", kind |-> "inf"]
List(n) == [t |-> "list", len |-> n]
\* A str that nothing takes apart, held whole.
TextV(s) == [t |-> "text", v |-> s]

Ret(x) == [k |-> "ret", v |-> x]
Raise(e) == [k |-> "raise", exc |-> e]

Alphabet == {"-", "1", "7", " ", "a", "_"}
DigitChars == <<"0", "1", "2", "3", "4", "5", "6", "7", "8", "9">>
IsDigit(c) == \E i \in 1..10 : DigitChars[i] = c
DigitVal(c) == (CHOOSE i \in 1..10 : DigitChars[i] = c) - 1

RECURSIVE StrsUpTo(_, _)
StrsUpTo(alpha, n) ==
    IF n = 0 THEN {<<>>}
    ELSE LET shorter == StrsUpTo(alpha, n - 1)
         IN  shorter \cup {Append(s, c) : s \in shorter, c \in alpha}

\* Python truth value (used by `x or y` and `if not x`).
Truthy(x) ==
    CASE x.t = "none" -> FALSE
      [] x.t = "str" -> Len(x.v) > 0
      [] x.t = "int" -> x.v # 0
      [] x.t = "bool" -> x.v
      [] x.t = "float" -> ~(x.kind = "fin" /\ x.v = 0)
      [] x.t = "list" -> x.len > 0
      [] x.t = "text" -> x.v # ""

(***************************************************************************)
(* int(value) of Python.                                                   *)
(***************************************************************************)
\* The whitespace characters that occur in the texts.
Whitespace == {" ", "\n", "\t"}

RECURSIVE LStrip(_)
LStrip(s) ==
    IF s # <<>> /\ Head(s) \in Whitespace THEN LStrip(Tail(s)) ELSE s

RECURSIVE RStrip(_)
RStrip(s) ==
    IF s # <<>> /\ s[Len(s)] \in Whitespace
    THEN RStrip(SubSeq(s, 1, Len(s) - 1)) ELSE s

\* str.strip()
Strip(s) == RStrip(LStrip(s))

\* The digits of an integer literal: digits, single underscores between them.
ValidDigits(s) ==
    /\ s # <<>>
    /\ IsDigit(s[1]) /\ IsDigit(s[Len(s)])
    /\ \A i \in 1..Len(s) : IsDigit(s[i]) \/ s[i] = "_"
    /\ \A i \in 1..(Len(s) - 1) : ~(s[i] = "_" /\ s[i + 1] = "_")

RECURSIVE DigitsValue(_, _)
DigitsValue(s, acc) ==
    IF s = <<>> THEN acc
    ELSE IF Head(s) = "_" THEN DigitsValue(Tail(s), acc)
    ELSE DigitsValue(Tail(s), 10 * acc + DigitVal(Head(s)))

\* int(str): surrounding whitespace dropped, an optional sign, base 10.
IntOfStr(s) ==
    LET b == Strip(s)
        signed == b # <<>> /\ b[1] \in {"-", "+"}
        body == IF signed THEN Tail(b) ELSE b
    IN  IF ValidDigits(body)
        THEN Ret(IF signed /\ b[1] = "-"
                 THEN 0 - DigitsValue(body, 0) ELSE DigitsValue(body, 0))
        ELSE Raise("ValueError")

\* int(float): truncation towards zero; nan and the infinities raise.
IntOfFloat(x) ==
    CASE x.kind = "nan" -> Raise("ValueError")
      [] x.kind = "inf" -> Raise("OverflowError")
      [] x.kind = "fin" ->
            Ret(IF x.v >= 0 THEN x.v \div 2 ELSE 0 - ((0 - x.v) \div 2))

PyInt(x) ==
    CASE x.t = "int" -> Ret(x.v)
      [] x.t = "bool" -> Ret(IF x.v THEN 1 ELSE 0)
      [] x.t = "float" -> IntOfFloat(x)
      [] x.t = "str" -> IntOfStr(x.v)
      [] x.t = "none" -> Raise("TypeError")
      [] x.t = "list" -> Raise("TypeError")

\* safe_int(value, default): Ret(n), or Raise(e) for an exception it lets out.
safe_int(value, default) ==
    IF value.t = "none" \/ (value.t = "str" /\ value.v = <<>>) THEN Ret(default)
    ELSE LET r == PyInt(value)
         IN  IF r.k = "raise" /\ r.exc \in {"ValueError", "TypeError"}
             THEN Ret(default)
             ELSE r

(***************************************************************************)
(* CasoBioetico.__init__: kwargs maps every key of Keys to a value or to   *)
(* Absent, and holds its 'nivel_<principle>_<prefix>' entries, keyed by    *)
(* their text, under "nivel".                                              *)
(***************************************************************************)
Keys == {"historia_clinica", "edad", "semanas_gestacion",
         "nombre_paciente", "genero", "condicion", "dilema_etico",
         "ai_clinical_analysis_summary"}

NoNivel == [key \in {} |-> None]

\* The mapping with the entries of `fields` and the nivel_* entries `nivel`.
Kwargs(fields, nivel) ==
    ("nivel" :> nivel)
        @@ [key \in Keys |-> IF key \in DOMAIN fields THEN fields[key] ELSE Absent]

\* The keys of dilemas_opciones, in the order of the dict.
dilemas_opciones ==
    <<"Dilemas Éticos en Neonatología",
      "Limitación del Esfuerzo Terapéutico (Adultos/Pediatría)",
      "Consentimiento Informado",
      "Confidencialidad y Manejo de Datos",
      "Cuidados Paliativos y Futilidad",
      "Eutanasia y Muerte Digna",
      "Asignación de Recursos Escasos",
      "Ética en la Genética y Medicina Predictiva",
      "Conflictos de Interés">>

\* kwargs.get(key, default)
Get(kwargs, key, default) == IF kwargs[key] = Absent THEN default ELSE kwargs[key]

\* x or y
Or(x, y) == IF Truthy(x) THEN x ELSE y

RECURSIVE DecimalDigits(_)
\* str(n) for n >= 0
DecimalDigits(n) ==
    IF n < 10 THEN <<DigitChars[n + 1]>>
    ELSE Append(DecimalDigits(n \div 10), DigitChars[(n % 10) + 1])

Prefijo == <<"c", "a", "s", "o", "_">>

\* f"caso_{int(datetime.now().timestamp())}"
CasoId(ts) == StrV(Prefijo \o DecimalDigits(ts))

Nivel_ == <<"n", "i", "v", "e", "l", "_">>

\* The principle and the prefix as they are written in the keys that
\* _extract_perspective looks up.
principios ==
    [autonomia |-> <<"a", "u", "t", "o", "n", "o", "m", "i", "a">>,
     beneficencia |-> <<"b", "e", "n", "e", "f", "i", "c", "e", "n", "c", "i", "a">>,
     no_maleficencia |-> <<"n", "o", "_", "m", "a", "l", "e", "f", "i", "c", "e",
                           "n", "c", "i", "a">>,
     justicia |-> <<"j", "u", "s", "t", "i", "c", "i", "a">>]
prefijos ==
    [medico |-> <<"m", "e", "d", "i", "c", "o">>,
     familia |-> <<"f", "a", "m", "i", "l", "i", "a">>,
     comite |-> <<"c", "o", "m", "i", "t", "e">>]

\* kwargs.get(f'nivel_{principle}_{prefix}')
GetNivel(kwargs, principle, prefix) ==
    LET key == Nivel_ \o principios[principle] \o <<"_">> \o prefijos[prefix]
    IN  IF key \in DOMAIN kwargs["nivel"] THEN kwargs["nivel"][key] ELSE None

\* _extract_perspective with the slider's default, 3, for a missing key:
\* safe_int(kwargs.get(key, 3)).
extract_perspective_defecto_3(prefix, kwargs) ==
    [pr \in DOMAIN principios |->
        LET value == GetNivel(kwargs, pr, prefix)
        IN  safe_int(IF value = None THEN IntV(3) ELSE value, 0)]

\* _extract_perspective(prefix, kwargs): what each safe_int call yields.
extract_perspective(prefix, kwargs) ==
    [pr \in DOMAIN principios |-> safe_int(GetNivel(kwargs, pr, prefix), 0)]

\* The object's fields once historia_clinica is decided: Ret(fields), or
\* Raise(e) when a safe_int call lets an exception out.
CasoCon(kwargs, historia_clinica) ==
    LET edad == safe_int(Get(kwargs, "edad", None), 0)
        semanas == safe_int(Get(kwargs, "semanas_gestacion", None), 0)
        medico == extract_perspective("medico", kwargs)
        familia == extract_perspective("familia", kwargs)
        comite == extract_perspective("comite", kwargs)
        Lista(d) == <<d.autonomia, d.beneficencia, d.no_maleficencia, d.justicia>>
        \* the safe_int calls in the order they are made
        calls == <<edad, semanas>> \o Lista(medico) \o Lista(familia) \o Lista(comite)
        raised == {i \in 1..Len(calls) : calls[i].k = "raise"}
        Scores_(d) == [pr \in DOMAIN d |-> d[pr].v]
    IN  IF raised # {}
        THEN calls[CHOOSE i \in raised : \A j \in raised : i <= j]
        ELSE Ret([nombre_paciente |-> Get(kwargs, "nombre_paciente", TextV("N/A")),
                  historia_clinica |-> historia_clinica,
                  edad |-> edad.v,
                  genero |-> Get(kwargs, "genero", TextV("N/A")),
                  dilema_etico |-> Get(kwargs, "dilema_etico",
                                       TextV(dilemas_opciones[1])),
                  condicion |-> Get(kwargs, "condicion", TextV("Estable")),
                  semanas_gestacion |-> semanas.v,
                  ai_clinical_analysis_summary |->
                      Get(kwargs, "ai_clinical_analysis_summary", TextV("")),
                  perspectivas |-> [medico |-> Scores_(medico),
                                    familia |-> Scores_(familia),
                                    comite |-> Scores_(comite)]])

\* The constructor with the fallback forgotten: kwargs.get('historia_clinica').
CasoBioetico_sin_respaldo(kwargs, ts) ==
    CasoCon(kwargs, Get(kwargs, "historia_clinica", None))

\* CasoBioetico built from kwargs at time ts:
\* historia_clinica = kwargs.get('historia_clinica') or f"caso_{...}".
CasoBioetico(kwargs, ts) ==
    CasoCon(kwargs, Or(Get(kwargs, "historia_clinica", None), CasoId(ts)))

(***************************************************************************)
(* llamar_gemini(prompt, api_key), as a function of what the HTTP request  *)
(* does.  A JSON object is a record, a JSON list a sequence.               *)
(***************************************************************************)
ErrConexion == "Error de conexión."
NoValida == "No se pudo obtener una respuesta válida."

\* Two texts Gemini may answer with when asked for a dilemma: an analysis
\* whose line of the suggested dilemma has an entry of the list, in lower
\* case and with a full stop; that line with a dilemma not of the list.
TextoAnalisis ==
    "Resumen: estable.\n6. Dilema Ético Sugerido (de la lista): consentimiento informado.\n"
TextoOtro == "Dilema Ético Sugerido (de la lista): Objeción de conciencia"

Candidato(text) == [content |-> [parts |-> <<[text |-> text]>>]]

\* What requests.post can come back with: the network outcome, the HTTP
\* status, whether the body is JSON, and the decoded body.
Responses == <<
    [net |-> "ConnectionError", status |-> 0, json |-> FALSE, body |-> <<>>],
    [net |-> "Timeout", status |-> 0, json |-> FALSE, body |-> <<>>],
    [net |-> "ok", status |-> 500, json |-> TRUE, body |-> [error |-> "e"]],
    [net |-> "ok", status |-> 200, json |-> FALSE, body |-> <<>>],
    [net |-> "ok", status |-> 200, json |-> TRUE, body |-> [error |-> "e"]],
    [net |-> "ok", status |-> 200, json |-> TRUE, body |-> [candidates |-> <<>>]],
    [net |-> "ok", status |-> 200, json |-> TRUE,
     body |-> [candidates |-> <<[finishReason |-> "SAFETY"]>>]],
    [net |-> "ok", status |-> 200, json |-> TRUE,
     body |-> [candidates |-> <<[content |-> [role |-> "model"]]>>]],
    [net |-> "ok", status |-> 200, json |-> TRUE,
     body |-> [candidates |-> <<[content |-> [parts |-> <<>>]]>>]],
    [net |-> "ok", status |-> 200, json |-> TRUE,
     body |-> [candidates |-> <<[content |-> [parts |-> <<[inlineData |-> "d"]>>]]>>]],
    [net |-> "ok", status |-> 200, json |-> TRUE,
     body |-> [candidates |-> <<Candidato("T1")>>]],
    [net |-> "ok", status |-> 200, json |-> TRUE,
     body |-> [candidates |-> <<Candidato("T2"), Candidato("T1")>>]],
    [net |-> "ok", status |-> 200, json |-> TRUE,
     body |-> [candidates |-> <<Candidato(TextoAnalisis)>>]],
    [net |-> "ok", status |-> 200, json |-> TRUE,
     body |-> [candidates |-> <<Candidato(TextoOtro)>>]]
>>

\* result['candidates'][0]['content']['parts'][0]['text']
PrimerTexto(result) ==
    LET c == result.candidates[1]
    IN  IF "content" \notin DOMAIN c THEN Raise("KeyError")
        ELSE IF "parts" \notin DOMAIN c.content THEN Raise("KeyError")
        ELSE IF Len(c.content.parts) = 0 THEN Raise("IndexError")
        ELSE IF "text" \notin DOMAIN c.content.parts[1] THEN Raise("KeyError")
        ELSE Ret(c.content.parts[1].text)

\* llamar_gemini on response resp.  response.json() reports a body that is
\* not JSON with requests.exceptions.JSONDecodeError, a RequestException
\* (requests 2.27 and later).
llamar_gemini(resp) ==
    IF resp.net # "ok" THEN Ret(ErrConexion)
    ELSE IF resp.status >= 400 THEN Ret(ErrConexion)
    ELSE IF ~resp.json THEN Ret(ErrConexion)
    ELSE IF "candidates" \in DOMAIN resp.body /\ Len(resp.body.candidates) > 0
    THEN PrimerTexto(resp.body)
    ELSE Ret(NoValida)

(***************************************************************************)
(* generar_visualizaciones_avanzadas(caso): the data of the two charts.    *)
(* A number that need not be an integer is held as a fraction [num, den];  *)
(* the standard deviation is held as its square.                           *)
(***************************************************************************)
Stakeholders == <<"medico", "familia", "comite">>
Principles == <<"autonomia", "beneficencia", "no_maleficencia", "justicia">>
labels == <<"Autonomia", "Beneficencia", "No Maleficencia", "Justicia">>
SliderMin == 0
SliderMax == 5
SliderDefault == 3

\* list(d.values()) of one perspective, in the order the keys were inserted.
Values(d) == <<d.autonomia, d.beneficencia, d.no_maleficencia, d.justicia>>

\* np.array([list(d.values()) for d in perspectivas_data.values()])
Scores(p) == [i \in 1..Len(Stakeholders) |-> Values(p[Stakeholders[i]])]

RECURSIVE SumSeq(_)
SumSeq(xs) == IF xs = <<>> THEN 0 ELSE Head(xs) + SumSeq(Tail(xs))

Column(scores, j) == [i \in 1..Len(scores) |-> scores[i][j]]

\* np.mean(x): sum / N
np_mean(x) == [num |-> SumSeq(x), den |-> Len(x)]

\* np.std(x, ddof) squared: mean(abs(x - x.mean())**2) with divisor N - ddof.
\* With S the sum, x[i] - S/N = (N*x[i] - S)/N.
np_var(x, ddof) ==
    LET N == Len(x)
        S == SumSeq(x)
        dev == [i \in 1..N |-> (N * x[i] - S) * (N * x[i] - S)]
    IN  [num |-> SumSeq(dev), den |-> N * N * (N - ddof)]

\* The chart with the sample standard deviation (ddof = 1) for the error bars.
generar_visualizaciones_muestral(p) ==
    LET scores == Scores(p)
    IN  [radar |-> [i \in 1..Len(Stakeholders) |->
                       [name |-> Stakeholders[i], theta |-> labels,
                        r |-> Values(p[Stakeholders[i]])]],
         stats |-> [j \in 1..Len(labels) |->
                       [x |-> labels[j],
                        y |-> np_mean(Column(scores, j)),
                        err2 |-> np_var(Column(scores, j), 1)]]]

\* generar_visualizaciones_avanzadas: the radar traces, one per stakeholder,
\* and the bars of the consensus chart, one per label: np.mean(scores, axis=0)
\* with np.std(scores, axis=0) (ddof = 0) as the error bar.
generar_visualizaciones_avanzadas(p) ==
    LET scores == Scores(p)
    IN  [radar |-> [i \in 1..Len(Stakeholders) |->
                       [name |-> Stakeholders[i], theta |-> labels,
                        r |-> Values(p[Stakeholders[i]])]],
         stats |-> [j \in 1..Len(labels) |->
                       [x |-> labels[j],
                        y |-> np_mean(Column(scores, j)),
                        err2 |-> np_var(Column(scores, j), 0)]]]

NoCharts == [radar |-> <<>>, stats |-> <<>>]

Perspectiva(v) ==
    [autonomia |-> v, beneficencia |-> v, no_maleficencia |-> v, justicia |-> v]

StakeholderSet == {Stakeholders[i] : i \in 1..Len(Stakeholders)}
PrincipleSet == {Principles[j] : j \in 1..Len(Principles)}

StatsStart ==
    /\ perspectivas = [s \in StakeholderSet |-> Perspectiva(SliderDefault)]
    /\ moves = 0
    /\ charts = NoCharts

\* One score of the case is given another value of the range of the scores.
MoveSlider ==
    \E s \in StakeholderSet, pr \in PrincipleSet, v \in SliderMin..SliderMax :
        /\ moves < MaxMoves
        /\ charts = NoCharts
        /\ perspectivas[s][pr] = SliderDefault
        /\ v # SliderDefault
        /\ perspectivas' = [perspectivas EXCEPT ![s][pr] = v]
        /\ moves' = moves + 1
        /\ UNCHANGED <<charts, pureVars, sessVars>>

MakeCharts ==
    /\ charts = NoCharts
    /\ charts' = generar_visualizaciones_avanzadas(perspectivas)
    /\ UNCHANGED <<perspectivas, moves, pureVars, sessVars>>

\* C10: for three score vectors with entries in 0..5, each bar of the consensus
\* chart is, in the fixed order autonomy, beneficence, non-maleficence, justice,
\* the mean m of the three stakeholders' values of that principle, and its error
\* bar is the population standard deviation s (divisor 3): 3*m = sum and
\* 9*s^2 = 3*(sum of squares) - (sum)^2.
C10_ConsensusMeanStd ==
    charts # NoCharts =>
        /\ Len(charts.stats) = Len(Principles)
        /\ \A j \in 1..Len(Principles) :
             LET pr == Principles[j]
                 a == perspectivas["medico"][pr]
                 b == perspectivas["familia"][pr]
                 c == perspectivas["comite"][pr]
                 bar == charts.stats[j]
             IN  /\ bar.x = labels[j]
                 /\ 3 * bar.y.num = (a + b + c) * bar.y.den
                 /\ 9 * bar.err2.num
                      = (3 * (a * a + b * b + c * c) - (a + b + c) * (a + b + c))
                        * bar.err2.den

\* The charts of the scores of testable property P3 in the autonomy column
\* (5, 0, 5): mean 10/3 and variance 50/9.
C10_Witness ==
    /\ charts # NoCharts
    /\ perspectivas["medico"]["autonomia"] = 5
    /\ perspectivas["familia"]["autonomia"] = 0
    /\ perspectivas["comite"]["autonomia"] = 5
    /\ 3 * charts.stats[1].y.num = 10 * charts.stats[1].y.den
    /\ 9 * charts.stats[1].err2.num = 50 * charts.stats[1].err2.den

(***************************************************************************)
(* Direct calls of the functions above, with their arguments drawn from    *)
(* bounded sets.                                                           *)
(***************************************************************************)
NoCall == [fn |-> "none"]

SafeIntValues ==
    {None, IntV(-4), IntV(0), IntV(12), BoolV(TRUE), BoolV(FALSE),
     FloatFin(7), FloatFin(-7), FloatNaN, FloatInf, List(0), List(2)}
    \cup {StrV(s) : s \in StrsUpTo(Alphabet, MaxStrLen)}

Defaults == {0, 9}

FieldAlphabet == {"-", "1"}

FieldValues ==
    {Absent, None, IntV(-2), IntV(30), FloatInf, StrV(<<"a">>)}
    \cup {StrV(s) : s \in StrsUpTo(FieldAlphabet, MaxFieldLen)}

HcValues ==
    {Absent, None, StrV(<<>>), StrV(<<" ">>), StrV(<<"H", "1">>), IntV(0)}

PureStart ==
    /\ call = NoCall
    /\ prev = NoCall
    /\ now = 0

Tick ==
    /\ now < MaxTime
    /\ now' = now + 1
    /\ UNCHANGED <<call, prev, statsVars, sessVars>>

CallSafeInt ==
    \E value \in SafeIntValues, default \in Defaults :
        /\ call = NoCall
        /\ call' = [fn |-> "safe_int", value |-> value, default |-> default,
                    res |-> safe_int(value, default)]
        /\ UNCHANGED <<prev, now, statsVars, sessVars>>

CallCasoBioetico ==
    \E hc \in HcValues, edad \in FieldValues, semanas \in FieldValues :
        LET kwargs == Kwargs([historia_clinica |-> hc, edad |-> edad,
                              semanas_gestacion |-> semanas], NoNivel)
        IN  /\ call = NoCall
            /\ call' = [fn |-> "CasoBioetico", kwargs |-> kwargs, ts |-> now,
                        res |-> CasoBioetico(kwargs, now)]
            /\ UNCHANGED <<prev, now, statsVars, sessVars>>

CallGemini ==
    \E i \in 1..Len(Responses) :
        /\ call = NoCall
        /\ call' = [fn |-> "llamar_gemini", resp |-> i,
                    res |-> llamar_gemini(Responses[i])]
        /\ UNCHANGED <<prev, now, statsVars, sessVars>>

\* The supplied identifier is absent or false in Python's sense.
Falsy(hc) == hc = Absent \/ ~Truthy(hc)

\* The caller takes the result; a CasoBioetico built with no identifier
\* supplied (absent or falsy) is remembered as the previous such build.
Return ==
    /\ call # NoCall
    /\ call' = NoCall
    /\ prev' = IF /\ call.fn = "CasoBioetico" /\ call.res.k = "ret"
                  /\ Falsy(call.kwargs["historia_clinica"])
               THEN [fn |-> "CasoBioetico", ts |-> call.ts,
                     id |-> call.res.v.historia_clinica]
               ELSE prev
    /\ UNCHANGED <<now, statsVars, sessVars>>

(***************************************************************************)
(* The report and its PDF.                                                 *)
(***************************************************************************)
\* str(x) as an f-string puts it in.
Str(x) ==
    CASE x.t = "text" -> x.v
      [] x.t = "int" -> ToString(x.v)
      [] x.t = "none" -> "None"

\* The report dict of generar_reporte_completo, with the clause on the
\* gestational weeks appended when `neonato`.  id is 'ID del Caso', resumen
\* 'Resumen del Paciente', dilema 'Dilema Ético Principal (Seleccionado)',
\* analisis_hc 'Análisis IA de Historia Clínica', analisis 'Análisis
\* Deliberativo (IA)' and historial 'Historial del Chat de Deliberación'.
Reporte(caso, dilema_sugerido, chat_history, chart_jsons, neonato) ==
    LET resumen_paciente ==
            "Paciente " \o Str(caso.nombre_paciente) \o ", "
                \o ToString(caso.edad) \o " años, género " \o Str(caso.genero)
                \o ", condición " \o Str(caso.condicion) \o "."
    IN  [t |-> "dict",
         id |-> caso.historia_clinica,
         resumen |-> IF neonato
                     THEN resumen_paciente \o " Neonato de "
                              \o ToString(caso.semanas_gestacion) \o " sem."
                     ELSE resumen_paciente,
         dilema |-> caso.dilema_etico,
         dilema_sugerido |-> dilema_sugerido,
         analisis_hc |-> caso.ai_clinical_analysis_summary,
         AnalisisMultiperspectiva |-> caso.perspectivas,
         analisis |-> "",
         historial |-> chat_history,
         radar_chart_json |-> chart_jsons.radar,
         stats_chart_json |-> chart_jsons.stats]

\* The report with the clause also for 0 weeks (>= for >).
generar_reporte_completo_desde_0(caso, dilema_sugerido, chat_history, chart_jsons) ==
    Reporte(caso, dilema_sugerido, chat_history, chart_jsons,
            caso.semanas_gestacion >= 0)

\* generar_reporte_completo(caso, dilema_sugerido, chat_history, chart_jsons)
generar_reporte_completo(caso, dilema_sugerido, chat_history, chart_jsons) ==
    Reporte(caso, dilema_sugerido, chat_history, chart_jsons,
            caso.semanas_gestacion > 0)

\* crear_reporte_pdf_completo(data, temp_dir, filename): the story handed to
\* doc.build: the fields of `order` that are set, the analysis if there is
\* one, and a paragraph per chat message of the report.
crear_reporte_pdf_completo(data) ==
    [campos |-> IF Truthy(data.id) THEN <<<<"ID del Caso", data.id>>>> ELSE <<>>,
     analisis |-> IF data.analisis # "" THEN <<data.analisis>> ELSE <<>>,
     chat |-> [i \in 1..Len(data.historial) |->
                  [quien |-> IF data.historial[i].role = "user"
                             THEN "Usuario" ELSE "Asistente IA",
                   content |-> data.historial[i].content]]]

\* The labels of create_perspective_sliders.
principles ==
    <<<<"A", "u", "t", "o", "n", "o", "m", "í", "a">>,
      <<"B", "e", "n", "e", "f", "i", "c", "e", "n", "c", "i", "a">>,
      <<"N", "o", " ", "M", "a", "l", "e", "f", "i", "c", "e", "n", "c", "i", "a">>,
      <<"J", "u", "s", "t", "i", "c", "i", "a">>>>

Uppers == <<"A", "B", "C", "D", "E", "F", "G", "H", "I", "J", "K", "L", "M",
            "N", "O", "P", "Q", "R", "S", "T", "U", "V", "W", "X", "Y", "Z",
            "Á", "É", "Í", "Ó", "Ú", "Ñ">>
Lowers == <<"a", "b", "c", "d", "e", "f", "g", "h", "i", "j", "k", "l", "m",
            "n", "o", "p", "q", "r", "s", "t", "u", "v", "w", "x", "y", "z",
            "á", "é", "í", "ó", "ú", "ñ">>

\* s.lower()
Lower(s) ==
    [i \in 1..Len(s) |->
        IF \E j \in 1..Len(Uppers) : Uppers[j] = s[i]
        THEN Lowers[CHOOSE j \in 1..Len(Uppers) : Uppers[j] = s[i]]
        ELSE s[i]]

\* s.replace(a, b) for one-character a and b
Replace(s, a, b) == [i \in 1..Len(s) |-> IF s[i] = a THEN b ELSE s[i]]

\* The key of the i-th slider's value: p.lower().replace(" ", "_")
SliderKey == [i \in 1..Len(principles) |-> Replace(Lower(principles[i]), " ", "_")]

RECURSIVE SliderValues(_, _)
\* `values` after the first n turns of the loop of create_perspective_sliders.
SliderValues(chosen, n) ==
    IF n = 0 THEN NoNivel
    ELSE (SliderKey[n] :> chosen[n]) @@ SliderValues(chosen, n - 1)

\* create_perspective_sliders: the dict from the key of each slider to its
\* value; chosen[i] is the value of the i-th slider.
create_perspective_sliders(prefix, chosen) == SliderValues(chosen, Len(principles))

\* The setting of the twelve sliders tried.
FormSliders ==
    {[medico |-> <<5, 4, 3, 2>>, familia |-> <<1, 0, 5, 3>>, comite |-> <<2, 3, 3, 4>>]}

\* The order in which the submit handler goes through the three dicts.
p_names == <<"medico", "familia", "comite">>

RECURSIVE NivelDe(_, _, _)
\* The entries f'nivel_{principle}_{p_name}' of one dict, whose keys not yet
\* gone through are `keys`.
NivelDe(p_name, scores_dict, keys) ==
    IF keys = {} THEN NoNivel
    ELSE LET principle == CHOOSE k \in keys : TRUE
         IN  ((Nivel_ \o principle \o <<"_">> \o prefijos[p_name])
                  :> IntV(scores_dict[principle]))
                 @@ NivelDe(p_name, scores_dict, keys \ {principle})

RECURSIVE Nivel(_, _)
\* The nivel_* entries after the first n dicts.
Nivel(sliders, n) ==
    IF n = 0 THEN NoNivel
    ELSE LET scores_dict == create_perspective_sliders(p_names[n], sliders[p_names[n]])
         IN  NivelDe(p_names[n], scores_dict, DOMAIN scores_dict)
                 @@ Nivel(sliders, n - 1)

\* The values of the fields of the summary tried.
NombreValues == {Absent, TextV("Ana")}
EdadValues == {Absent, IntV(7)}
SemanasValues == {Absent, IntV(-1), IntV(0), IntV(1), IntV(30)}
DilemaValues == {Absent, TextV(dilemas_opciones[3])}

\* The nivel_* entries tried: none; those of the medical team only, with a
\* numeric text, a None and a negative number among them; those the form
\* makes of its sliders.
NivelValues ==
    {NoNivel,
     ((Nivel_ \o principios.autonomia \o <<"_">> \o prefijos.medico) :> IntV(5))
       @@ ((Nivel_ \o principios.beneficencia \o <<"_">> \o prefijos.medico)
             :> StrV(<<"1", "7">>))
       @@ ((Nivel_ \o principios.no_maleficencia \o <<"_">> \o prefijos.medico) :> None)
       @@ ((Nivel_ \o principios.justicia \o <<"_">> \o prefijos.medico) :> IntV(-4))}
    \cup {Nivel(sliders, Len(p_names)) : sliders \in FormSliders}

\* A case is built and its report made.
CallReporte ==
    \E nombre \in NombreValues, edad \in EdadValues, semanas \in SemanasValues,
       dilema \in DilemaValues, nivel \in NivelValues :
        LET kwargs == Kwargs([nombre_paciente |-> nombre, edad |-> edad,
                              semanas_gestacion |-> semanas,
                              dilema_etico |-> dilema], nivel)
            caso == CasoBioetico(kwargs, now)
        IN  /\ call = NoCall
            /\ caso.k = "ret"
            /\ call' = [fn |-> "generar_reporte_completo", kwargs |-> kwargs,
                        caso |-> caso.v,
                        res |-> Ret(generar_reporte_completo(caso.v, None, <<>>,
                                  generar_visualizaciones_avanzadas(caso.v.perspectivas)))]
            /\ UNCHANGED <<prev, now, statsVars, sessVars>>

(***************************************************************************)
(* The dilemma suggested by the AI.  A text is held as a string; its       *)
(* characters, which the handlers search, are looked up in a table.        *)
(***************************************************************************)
\* The characters of the texts that occur: the entries of dilemas_opciones,
\* the answers of Gemini and the two sentences llamar_gemini returns.
Caracteres ==
    ("Dilemas Éticos en Neonatología" :>
        <<"D", "i", "l", "e", "m", "a", "s", " ", "É", "t", "i", "c", "o",
          "s", " ", "e", "n", " ", "N", "e", "o", "n", "a", "t", "o", "l",
          "o", "g", "í", "a">>)
    @@ ("Limitación del Esfuerzo Terapéutico (Adultos/Pediatría)" :>
        <<"L", "i", "m", "i", "t", "a", "c", "i", "ó", "n", " ", "d", "e",
          "l", " ", "E", "s", "f", "u", "e", "r", "z", "o", " ", "T", "e",
          "r", "a", "p", "é", "u", "t", "i", "c", "o", " ", "(", "A", "d",
          "u", "l", "t", "o", "s", "/", "P", "e", "d", "i", "a", "t", "r",
          "í", "a", ")">>)
    @@ ("Consentimiento Informado" :>
        <<"C", "o", "n", "s", "e", "n", "t", "i", "m", "i", "e", "n", "t",
          "o", " ", "I", "n", "f", "o", "r", "m", "a", "d", "o">>)
    @@ ("Confidencialidad y Manejo de Datos" :>
        <<"C", "o", "n", "f", "i", "d", "e", "n", "c", "i", "a", "l", "i",
          "d", "a", "d", " ", "y", " ", "M", "a", "n", "e", "j", "o", " ",
          "d", "e", " ", "D", "a", "t", "o", "s">>)
    @@ ("Cuidados Paliativos y Futilidad" :>
        <<"C", "u", "i", "d", "a", "d", "o", "s", " ", "P", "a", "l", "i",
          "a", "t", "i", "v", "o", "s", " ", "y", " ", "F", "u", "t", "i",
          "l", "i", "d", "a", "d">>)
    @@ ("Eutanasia y Muerte Digna" :>
        <<"E", "u", "t", "a", "n", "a", "s", "i", "a", " ", "y", " ", "M",
          "u", "e", "r", "t", "e", " ", "D", "i", "g", "n", "a">>)
    @@ ("Asignación de Recursos Escasos" :>
        <<"A", "s", "i", "g", "n", "a", "c", "i", "ó", "n", " ", "d", "e",
          " ", "R", "e", "c", "u", "r", "s", "o", "s", " ", "E", "s", "c",
          "a", "s", "o", "s">>)
    @@ ("Ética en la Genética y Medicina Predictiva" :>
        <<"É", "t", "i", "c", "a", " ", "e", "n", " ", "l", "a", " ", "G",
          "e", "n", "é", "t", "i", "c", "a", " ", "y", " ", "M", "e", "d",
          "i", "c", "i", "n", "a", " ", "P", "r", "e", "d", "i", "c", "t",
          "i", "v", "a">>)
    @@ ("Conflictos de Interés" :>
        <<"C", "o", "n", "f", "l", "i", "c", "t", "o", "s", " ", "d", "e",
          " ", "I", "n", "t", "e", "r", "é", "s">>)
    @@ ("Resumen: estable.\n6. Dilema Ético Sugerido (de la lista): consentimiento informado.\n" :>
        <<"R", "e", "s", "u", "m", "e", "n", ":", " ", "e", "s", "t", "a",
          "b", "l", "e", ".", "\n", "6", ".", " ", "D", "i", "l", "e", "m",
          "a", " ", "É", "t", "i", "c", "o", " ", "S", "u", "g", "e", "r",
          "i", "d", "o", " ", "(", "d", "e", " ", "l", "a", " ", "l", "i",
          "s", "t", "a", ")", ":", " ", "c", "o", "n", "s", "e", "n", "t",
          "i", "m", "i", "e", "n", "t", "o", " ", "i", "n", "f", "o", "r",
          "m", "a", "d", "o", ".", "\n">>)
    @@ ("Dilema Ético Sugerido (de la lista): Objeción de conciencia" :>
        <<"D", "i", "l", "e", "m", "a", " ", "É", "t", "i", "c", "o", " ",
          "S", "u", "g", "e", "r", "i", "d", "o", " ", "(", "d", "e", " ",
          "l", "a", " ", "l", "i", "s", "t", "a", ")", ":", " ", "O", "b",
          "j", "e", "c", "i", "ó", "n", " ", "d", "e", " ", "c", "o", "n",
          "c", "i", "e", "n", "c", "i", "a">>)
    @@ ("Error de conexión." :>
        <<"E", "r", "r", "o", "r", " ", "d", "e", " ", "c", "o", "n", "e",
          "x", "i", "ó", "n", ".">>)
    @@ ("No se pudo obtener una respuesta válida." :>
        <<"N", "o", " ", "s", "e", " ", "p", "u", "d", "o", " ", "o", "b",
          "t", "e", "n", "e", "r", " ", "u", "n", "a", " ", "r", "e", "s",
          "p", "u", "e", "s", "t", "a", " ", "v", "á", "l", "i", "d", "a",
          ".">>)
    @@ ("T1" :>
        <<"T", "1">>)
    @@ ("T2" :>
        <<"T", "2">>)

\* "Dilema Ético Sugerido (de la lista):"
Encabezado ==
    <<"D", "i", "l", "e", "m", "a", " ", "É", "t", "i", "c", "o", " ", "S",
      "u", "g", "e", "r", "i", "d", "o", " ", "(", "d", "e", " ", "l", "a",
      " ", "l", "i", "s", "t", "a", ")", ":">>

\* pat in s
Contains(pat, s) ==
    \E i \in 0..(Len(s) - Len(pat)) : SubSeq(s, i + 1, i + Len(pat)) = pat

RECURSIVE Remove(_, _)
\* s.replace(pat, "") for a non-empty pat
Remove(s, pat) ==
    IF Len(s) < Len(pat) THEN s
    ELSE IF SubSeq(s, 1, Len(pat)) = pat
    THEN Remove(SubSeq(s, Len(pat) + 1, Len(s)), pat)
    ELSE <<Head(s)>> \o Remove(Tail(s), pat)

RECURSIVE Split(_)
\* s.split('\n')
Split(s) ==
    IF \A i \in 1..Len(s) : s[i] # "\n" THEN <<s>>
    ELSE LET i == CHOOSE i \in 1..Len(s) :
                      s[i] = "\n" /\ \A j \in 1..(i - 1) : s[j] # "\n"
         IN  <<SubSeq(s, 1, i - 1)>> \o Split(SubSeq(s, i + 1, Len(s)))

\* suggested_dilemma_raw of the clinical-history handler: what is left, once
\* stripped, of the first line that has the heading when the heading is
\* taken out of it; None if no line has it.
suggested_dilemma_raw(ai_analysis) ==
    LET lines == Split(ai_analysis)
        hits == {n \in 1..Len(lines) : Contains(Encabezado, lines[n])}
    IN  IF hits = {} THEN None
        ELSE StrV(Strip(Remove(lines[CHOOSE n \in hits : \A m \in hits : n <= m],
                               Encabezado)))

\* found_dilemma of the clinical-history handler: the first entry of
\* dilemas_opciones whose lower case occurs in the lower case of
\* suggested_dilemma_raw; None if there is no such line or no such entry.
found_dilemma(ai_analysis) ==
    LET raw == suggested_dilemma_raw(ai_analysis)
    IN  IF raw = None THEN None
        ELSE
            LET ok == {d \in 1..Len(dilemas_opciones) :
                          Contains(Lower(Caracteres[dilemas_opciones[d]]),
                                   Lower(raw.v))}
            IN  IF ok = {} THEN None
                ELSE StrV(Caracteres[dilemas_opciones[
                              CHOOSE d \in ok : \A e \in ok : d <= e]])

(***************************************************************************)
(* The script.  One run executes app.py from top to bottom on the widget   *)
(* the user acted on: the callbacks, the submit handler, the report        *)
(* section, the chat tab.  st.rerun() and an uncaught exception end the    *)
(* run where they happen.  A section is given w = [ss, store, run,         *)
(* rendered] as it finds them and `in`, the event with the outcomes of the *)
(* collaborators it calls, and yields w as it leaves them.                 *)
(***************************************************************************)
TmpDir == StrV(<<"/", "t", "m", "p">>)      \* what tempfile.mkdtemp() returns

FormIds == {StrV(<<>>), StrV(<<"H", "1">>)}
preguntas == <<"Cual es el conflicto principal?">>
TypedQuestions == {"Q"}

\* The responses of Gemini tried when a dilemma is asked for: no connection,
\* a candidate with no content, and the two texts.
DilemaResponses ==
    {i \in 1..Len(Responses) :
        \/ Responses[i].net = "ConnectionError"
        \/ Responses[i].body = [candidates |-> <<[finishReason |-> "SAFETY"]>>]
        \/ Responses[i].body = [candidates |-> <<Candidato(TextoAnalisis)>>]
        \/ Responses[i].body = [candidates |-> <<Candidato(TextoOtro)>>]}

\* The responses of Gemini tried in a run: a candidate with no content, a text.
SessionResponses ==
    {i \in 1..Len(Responses) :
        \/ Responses[i].body = [candidates |-> <<[finishReason |-> "SAFETY"]>>]
        \/ Responses[i].body = [candidates |-> <<Candidato("T1")>>]}

NoRun ==
    [trigger |-> "load",    \* the widget acted on
     end |-> "done",        \* running, done, rerun (st.rerun()) or raise
     pos |-> "end",         \* the section the run is about to execute
     exc |-> "",            \* the exception that ended the run
     st_error |-> FALSE,    \* the validation error was shown
     built |-> FALSE,       \* a CasoBioetico was built
     report_made |-> FALSE, \* generar_reporte_completo was called
     writes |-> 0,          \* store writes issued
     overwrote |-> FALSE,   \* set() replaced a document that had chat turns
     pdf |-> None,          \* the story of the PDF that was built
     asked |-> FALSE,       \* a question was put to Gemini in the chat
     q |-> "", reply |-> ""]

Raised(w, e) == [w EXCEPT !.run.end = "raise", !.run.exc = e]
StRerun(w) == [w EXCEPT !.run.end = "rerun"]

\* set() that leaves a document that is there as it is (create-if-missing).
StoreSet_si_falta(st, id, doc) == IF id \in DOMAIN st THEN st ELSE (id :> doc) @@ st

\* document(id).set(doc): a full overwrite.
StoreSet(st, id, doc) == (id :> doc) @@ st

\* The report persisted whole where only the analysis should be: set(reporte).
UpdateAnalisis_set(st, id, reporte) == StoreSet(st, id, reporte)

\* document(id).update({"Análisis Deliberativo (IA)": analysis}), analysis
\* being what was just put into the report.
UpdateAnalisis(st, id, reporte) == [st EXCEPT ![id].analisis = reporte.analisis]

\* One store write of a run: w after it, the run ended by the exception when
\* the store fails.  `known` says whether the document exists; update() of a
\* missing document raises NotFound.
StoreWrite(w, in, known, st) ==
    LET w1 == [w EXCEPT !.run.writes = @ + 1]
    IN  IF ~in.store_ok THEN Raised(w1, "StoreError")
        ELSE IF ~known THEN Raised(w1, "NotFound")
        ELSE StRerun([w1 EXCEPT !.store = st])

\* The options of the dilemma selectbox tried, as positions in the list.
FormDilemas == {9}

\* form_data_for_caso with the dilemma taken from the text of the AI's
\* analysis and not from the selectbox.
FormData_dilema_libre(in, ai_clinical_analysis_output) ==
    Kwargs([nombre_paciente |-> TextV("Ana"),
            historia_clinica |-> in.hc,
            edad |-> IntV(30),
            genero |-> TextV("Femenino"),
            dilema_etico |-> TextV(ai_clinical_analysis_output),
            condicion |-> TextV("Estable"),
            semanas_gestacion |-> IntV(0),
            ai_clinical_analysis_summary |-> TextV(ai_clinical_analysis_output)],
           Nivel(in.sliders, Len(p_names)))

\* form_data_for_caso: the form's fields (number_input gives integers, the
\* selectbox one of its options) and the slider values under
\* f'nivel_{principle}_{p_name}'.
FormData(in, ai_clinical_analysis_output) ==
    Kwargs([nombre_paciente |-> TextV("Ana"),
            historia_clinica |-> in.hc,
            edad |-> IntV(30),
            genero |-> TextV("Femenino"),
            dilema_etico |-> TextV(dilemas_opciones[in.dilema]),
            condicion |-> TextV("Estable"),
            semanas_gestacion |-> IntV(0),
            ai_clinical_analysis_summary |-> TextV(ai_clinical_analysis_output)],
           Nivel(in.sliders, Len(p_names)))

\* The end of the submit handler: the report is written to the store, if
\* there is one, and the script is run again.
SubmitStore(w2, in, id, reporte) ==
    IF ~db THEN StRerun(w2)
    ELSE StoreWrite([w2 EXCEPT !.run.overwrote =
                         id \in DOMAIN w2.store /\ w2.store[id].historial # <<>>],
                    in, TRUE, StoreSet(w2.store, id, reporte))

\* The submit handler from the report on: the session takes the report, an
\* empty chat history, the case's identifier and a new temp_dir.
SubmitReporte(w1, in, caso, reporte) ==
    SubmitStore([w1 EXCEPT !.run.built = TRUE,
                           !.run.report_made = TRUE,
                           !.ss.chat_history = <<>>,
                           !.ss.reporte = reporte,
                           !.ss.case_id = caso.historia_clinica,
                           !.ss.temp_dir = TmpDir],
                in, caso.historia_clinica, reporte)

\* The submit handler from the charts on, `caso` being what CasoBioetico
\* came back with.
SubmitCaso(w1, in, caso) ==
    IF caso.k = "raise" THEN Raised(w1, caso.exc)
    ELSE IF ~in.chart_ok
    THEN Raised([w1 EXCEPT !.run.built = TRUE], "ChartError")
    ELSE SubmitReporte(w1, in, caso.v,
             generar_reporte_completo(caso.v, w1.ss.dilema_sugerido, <<>>,
                 generar_visualizaciones_avanzadas(caso.v.perspectivas)))

\* The lines of the submit handler after the validation: cleanup_temp_dir()
\* and the case built of the form's data.
SubmitBody(w, in) ==
    SubmitCaso([w EXCEPT !.ss.temp_dir = None], in,
               CasoBioetico(FormData(in, w.ss.ai_clinical_analysis_output), now))

\* "Analizar Historia Clínica con IA": the analysis is kept, and the entry of
\* the list found in it, if any, becomes the suggested dilemma.
SecClinical(w, in) ==
    IF in.trigger # "clinical" THEN w
    ELSE IF in.clinical_history_input # "" /\ api_key
    THEN
        LET ai_analysis == llamar_gemini(Responses[in.resp])
        IN  IF ai_analysis.k = "raise" THEN Raised(w, ai_analysis.exc)
            ELSE
                LET w1 == [w EXCEPT !.ss.ai_clinical_analysis_output = ai_analysis.v,
                                    !.run.reply = ai_analysis.v]
                    found == found_dilemma(Caracteres[ai_analysis.v])
                IN  StRerun(IF Truthy(found)
                            THEN [w1 EXCEPT !.ss.dilema_sugerido = found]
                            ELSE w1)
    ELSE w

\* The suggestion checked against the list before it is kept.
SecSuggest_con_lista(w, in) ==
    IF in.trigger # "suggest" THEN w
    ELSE IF in.descripcion_caso # "" /\ api_key
    THEN
        LET sugerencia == llamar_gemini(Responses[in.resp])
        IN  IF sugerencia.k = "raise" THEN Raised(w, sugerencia.exc)
            ELSE IF \E d \in 1..Len(dilemas_opciones) :
                        Caracteres[dilemas_opciones[d]] = Strip(Caracteres[sugerencia.v])
            THEN [w EXCEPT !.ss.dilema_sugerido = StrV(Strip(Caracteres[sugerencia.v])),
                           !.run.reply = sugerencia.v]
            ELSE [w EXCEPT !.run.reply = sugerencia.v]
    ELSE w

\* "Sugerir Dilema con IA (desde Descripción)":
\* st.session_state.dilema_sugerido = sugerencia.strip()
SecSuggest(w, in) ==
    IF in.trigger # "suggest" THEN w
    ELSE IF in.descripcion_caso # "" /\ api_key
    THEN
        LET sugerencia == llamar_gemini(Responses[in.resp])
        IN  IF sugerencia.k = "raise" THEN Raised(w, sugerencia.exc)
            ELSE [w EXCEPT !.ss.dilema_sugerido = StrV(Strip(Caracteres[sugerencia.v])),
                           !.run.reply = sugerencia.v]
    ELSE w

\* `if submitted:` with the validation left out.
SecSubmit_sin_validacion(w, in) ==
    IF in.trigger # "submit" THEN w ELSE SubmitBody(w, in)

\* `if submitted:` (the submit handler of tab_analisis).
SecSubmit(w, in) ==
    IF in.trigger # "submit" THEN w
    ELSE IF ~Truthy(in.hc) THEN [w EXCEPT !.run.st_error = TRUE]
    ELSE SubmitBody(w, in)

\* The PDF of the session's report: os.path.join(temp_dir, ...) raises
\* TypeError on None.
PdfStep(w) ==
    IF w.ss.temp_dir = None THEN Raised(w, "TypeError")
    ELSE [w EXCEPT !.run.pdf = crear_reporte_pdf_completo(w.ss.reporte)]

\* `if st.session_state.reporte:` (the regenerate button and the PDF).
SecReport(w, in) ==
    IF w.ss.reporte = None THEN w
    ELSE
        LET w1 == [w EXCEPT !.rendered = @ \cup {"regen"}]
        IN  IF in.trigger = "regen" /\ api_key
            THEN
                LET analysis == llamar_gemini(Responses[in.resp])
                IN  IF analysis.k = "raise" THEN Raised(w1, analysis.exc)
                    ELSE
                        LET w2 == [w1 EXCEPT !.ss.reporte.analisis = analysis.v]
                            id == w2.ss.case_id
                        IN  IF ~db THEN StRerun(w2)
                            ELSE StoreWrite(w2, in, id \in DOMAIN w2.store,
                                    UpdateAnalisis(w2.store, id, w2.ss.reporte))
            ELSE PdfStep(w1)

Turn(role, content) == [role |-> role, content |-> content]

\* `with tab_chatbot:` (the guided questions and the chat input).
SecChat(w, in) ==
    IF w.ss.case_id = None THEN w
    ELSE
        LET w1 == [w EXCEPT !.rendered = @ \cup {"chat"}]
            \* st.chat_input(...) or st.session_state.last_question
            prompt == IF in.trigger = "chat" THEN in.q ELSE w1.ss.last_question
        IN  IF prompt = "" THEN w1
            ELSE IF ~api_key THEN [w1 EXCEPT !.ss.last_question = ""]
            ELSE
                LET w2 == [w1 EXCEPT !.ss.last_question = "",
                                     !.ss.chat_history = Append(@, Turn("user", prompt)),
                                     !.run.asked = TRUE,
                                     !.run.q = prompt]
                    respuesta == llamar_gemini(Responses[in.resp])
                IN  IF respuesta.k = "raise" THEN Raised(w2, respuesta.exc)
                    ELSE
                        LET w3 == [w2 EXCEPT
                                      !.ss.chat_history =
                                          Append(@, Turn("assistant", respuesta.v)),
                                      !.run.reply = respuesta.v]
                            id == w3.ss.case_id
                        IN  IF ~db THEN StRerun(w3)
                            ELSE StoreWrite(w3, in, id \in DOMAIN w3.store,
                                    [w3.store EXCEPT
                                        ![id].historial = w3.ss.chat_history])

World == [ss |-> ss, store |-> store, run |-> run, rendered |-> rendered]

\* The outcomes of the collaborators a section may call.
Outcomes(resp, chart_ok, store_ok) ==
    [trigger |-> inp.trigger, hc |-> inp.hc, q |-> inp.q,
     dilema |-> inp.dilema, sliders |-> inp.sliders,
     clinical_history_input |-> inp.clinical_history_input,
     descripcion_caso |-> inp.descripcion_caso,
     resp |-> resp, chart_ok |-> chart_ok, store_ok |-> store_ok]

\* A widget event with the form as it is when nothing was entered.
NoForm ==
    [trigger |-> "rerun", hc |-> StrV(<<>>), q |-> "", dilema |-> 1,
     clinical_history_input |-> "", descripcion_caso |-> "",
     sliders |-> [p_name \in DOMAIN prefijos |->
                     [i \in 1..Len(principles) |-> SliderDefault]]]

\* The run goes on to section `next` unless the section ended it.
Leave(w, next) ==
    LET ended == w.run.end # "running"
    IN  /\ ss' = w.ss
        /\ store' = w.store
        /\ rendered' = w.rendered
        /\ run' = IF ended THEN [w.run EXCEPT !.pos = "end"]
                  ELSE IF next = "end" THEN [w.run EXCEPT !.pos = "end", !.end = "done"]
                  ELSE [w.run EXCEPT !.pos = next]
        /\ UNCHANGED <<db, api_key, inp, pureVars, statsVars>>

SessStart ==
    /\ ss = [reporte |-> None, temp_dir |-> None, case_id |-> None,
             chat_history |-> <<>>, last_question |-> "",
             dilema_sugerido |-> None, ai_clinical_analysis_output |-> ""]
    /\ store = [k \in {} |-> None]
    /\ run = NoRun
    /\ rendered = {"form"}
    /\ inp = [NoForm EXCEPT !.trigger = "load"]

\* A run starts on a widget event: the widgets are rendered anew, and the
\* on_click callback of a guided question (handle_q_click) runs first.
StartRun(ev) ==
    LET trigger == ev.trigger
        q == ev.q
    IN
    /\ run.end # "running"
    /\ inp' = ev
    /\ run' = [NoRun EXCEPT !.trigger = trigger, !.end = "running",
                            !.pos = "submit"]
    /\ rendered' = {"form"}
    /\ ss' = IF trigger = "guided" THEN [ss EXCEPT !.last_question = q] ELSE ss
    /\ UNCHANGED <<store, db, api_key, pureVars, statsVars>>

\* The user is served once the run that st.rerun() asked for is over.
Idle == run.end \in {"done", "raise"}

\* "Analizar Caso y Generar Dashboard", with one of `dilemas` selected.
SubmitWith(dilemas) ==
    \E hc \in FormIds, dilema \in dilemas, sliders \in FormSliders :
        /\ Idle /\ "form" \in rendered
        /\ StartRun([NoForm EXCEPT !.trigger = "submit", !.hc = hc,
                                   !.dilema = dilema, !.sliders = sliders])

Submit == SubmitWith(FormDilemas)

\* The options of the dilemma selectbox tried next to a suggestion: the entry
\* the texts of Gemini name, and another.
DilemaChoices == {3, 9}

\* The submission, which copies the suggestion into the report.
SubmitAny == SubmitWith(DilemaChoices)

\* The texts tried in a text area: none, some.
AreaTexts == {"", "Paciente estable."}

\* "Analizar Historia Clínica con IA"
ClinicalAnalysis ==
    \E text \in AreaTexts :
        /\ Idle /\ "form" \in rendered
        /\ StartRun([NoForm EXCEPT !.trigger = "clinical",
                                   !.clinical_history_input = text])

\* "Sugerir Dilema con IA (desde Descripción)"
SuggestDilemma ==
    \E text \in AreaTexts :
        /\ Idle /\ "form" \in rendered
        /\ StartRun([NoForm EXCEPT !.trigger = "suggest",
                                   !.descripcion_caso = text])

\* "Generar/Regenerar Análisis Deliberativo con Gemini"
Regenerate ==
    /\ Idle /\ "regen" \in rendered
    /\ StartRun([NoForm EXCEPT !.trigger = "regen"])

\* A question typed into st.chat_input.
ChatTyped ==
    \E q \in TypedQuestions :
        /\ Idle /\ "chat" \in rendered
        /\ Len(ss.chat_history) < MaxChat
        /\ StartRun([NoForm EXCEPT !.trigger = "chat", !.q = q])

\* A click on a guided question.
GuidedClick ==
    \E i \in 1..Len(preguntas) :
        /\ Idle /\ "chat" \in rendered
        /\ Len(ss.chat_history) < MaxChat
        /\ StartRun([NoForm EXCEPT !.trigger = "guided", !.q = preguntas[i]])

\* The run that st.rerun() starts: no widget was acted on.
Rerun ==
    /\ run.end = "rerun"
    /\ StartRun(NoForm)

\* tab_analisis after the suggestion button: the submit handler, if the run
\* is not over.
AfterSuggest(w2, in) ==
    IF w2.run.end # "running" THEN w2 ELSE SecSubmit(w2, in)

\* tab_analisis after the clinical-history section: the form, if the run is
\* not over.
AfterClinical(w1, in) ==
    IF w1.run.end # "running" THEN w1 ELSE AfterSuggest(SecSuggest(w1, in), in)

\* tab_analisis down to the submit handler.
TabAnalisis(w, in) == AfterClinical(SecClinical(w, in), in)

\* The run executes the clinical-history section and the form with its
\* submit handler.
RunSubmit ==
    \E resp \in DilemaResponses, chart_ok, store_ok \in BOOLEAN :
        /\ run.end = "running" /\ run.pos = "submit"
        /\ Leave(TabAnalisis(World, Outcomes(resp, chart_ok, store_ok)), "report")

\* The run executes the report section.
RunReport ==
    \E resp \in SessionResponses, store_ok \in BOOLEAN :
        /\ run.end = "running" /\ run.pos = "report"
        /\ Leave(SecReport(World, Outcomes(resp, TRUE, store_ok)), "chat")

\* The run executes the chat tab, and ends.
RunChat ==
    \E resp \in SessionResponses, store_ok \in BOOLEAN :
        /\ run.end = "running" /\ run.pos = "chat"
        /\ Leave(SecChat(World, Outcomes(resp, TRUE, store_ok)), "end")

Init ==
    /\ PureStart /\ StatsStart /\ SessStart
    /\ db \in BOOLEAN
    /\ api_key \in BOOLEAN

Next ==
    \/ Submit \/ Regenerate \/ ChatTyped \/ GuidedClick \/ Rerun
    \/ RunSubmit \/ RunReport \/ RunChat

Spec == Init /\ [][Next]_vars

\* The session of the suggested dilemma: the two buttons that ask the AI for
\* one, and the submission that copies it into the report.
DilemaNext ==
    \/ ClinicalAnalysis \/ SuggestDilemma \/ SubmitAny \/ Rerun
    \/ RunSubmit \/ RunReport \/ RunChat

\* Firebase is not configured: db is None.
DilemaInit ==
    /\ PureStart /\ StatsStart /\ SessStart
    /\ db = FALSE
    /\ api_key \in BOOLEAN

SpecDilema == DilemaInit /\ [][DilemaNext]_vars

PureNext ==
    \/ Tick \/ CallSafeInt \/ CallCasoBioetico \/ CallGemini \/ CallReporte
    \/ Return

PureInit == PureStart /\ StatsStart /\ SessStart /\ db = TRUE /\ api_key = TRUE

SpecPure == PureInit /\ [][PureNext]_vars

StatsInit == PureStart /\ StatsStart /\ SessStart /\ db = TRUE /\ api_key = TRUE

StatsNext == MoveSlider \/ MakeCharts

SpecStats == StatsInit /\ [][StatsNext]_vars
(***************************************************************************)
(* Claims about the functions.                                             *)
(***************************************************************************)
\* A value int() cannot read as a base-10 integer.
NoParseable(value) == PyInt(value).k = "raise"

\* C3: safe_int(value, default) returns an integer for every value and never
\* raises, and returns default when value is None, empty or not parseable.
C3_SafeIntTotal ==
    call.fn = "safe_int" =>
        /\ call.res.k = "ret"
        /\ call.res.v \in Int
        /\ (call.value = None \/ call.value = StrV(<<>>) \/ NoParseable(call.value))
               => call.res.v = call.default

\* C4: the edad and semanas_gestacion of every CasoBioetico that was built are
\* integers >= 0, also for a negative number or a negative numeric string, and
\* are 0 for a missing or non-numeric value.
C4_NonNegative ==
    (call.fn = "CasoBioetico" /\ call.res.k = "ret") =>
        /\ call.res.v.edad \in Nat
        /\ call.res.v.semanas_gestacion \in Nat

\* C5: llamar_gemini returns a string (the model's text or an error sentinel)
\* for every outcome of the HTTP request and never lets an exception out.
C5_GeminiNeverRaises ==
    call.fn = "llamar_gemini" => call.res.k = "ret"

\* The supplied identifier is empty after text coercion: absent, None, or a
\* text that trimming leaves empty.
EmptyAfterTrim(hc) ==
    hc = Absent \/ hc = None \/ (hc.t = "str" /\ Strip(hc.v) = <<>>)

\* C9: the identifier is synthesized exactly when the supplied one is empty
\* after trimming; it is then 'caso_' followed by the integer timestamp, so
\* two such builds at different timestamps get different identifiers;
\* otherwise the supplied one is kept.
C9_SynthesizedIffBlank ==
    (call.fn = "CasoBioetico" /\ call.res.k = "ret") =>
        LET hc == call.kwargs["historia_clinica"]
            id == call.res.v.historia_clinica
        IN  /\ IF EmptyAfterTrim(hc) THEN id = CasoId(call.ts) ELSE id = hc
            /\ EmptyAfterTrim(hc) =>
                 /\ id.t = "str"
                 /\ SubSeq(id.v, 1, Len(Prefijo)) = Prefijo
                 /\ IntOfStr(SubSeq(id.v, Len(Prefijo) + 1, Len(id.v))) = Ret(call.ts)
            /\ (EmptyAfterTrim(hc) /\ prev # NoCall /\ prev.ts # call.ts)
                 => id # prev.id

(***************************************************************************)
(* Claims about a session.                                                 *)
(***************************************************************************)
\* The run is in its submit handler, on a submission with an empty identifier.
EmptySubmit ==
    /\ run.end = "running" /\ run.pos = "submit"
    /\ inp.trigger = "submit" /\ ~Truthy(inp.hc)

\* The run is in its chat handler, on a chat action with an API key.
ChatAction ==
    /\ run.end = "running" /\ run.pos = "chat"
    /\ inp.trigger \in {"chat", "guided"} /\ api_key

\* C1: every document of the store is kept under a non-empty string and
\* carries it as its 'ID del Caso'; a submission with an empty identifier
\* issues no store write; and CasoBioetico given a missing or empty
\* historia_clinica takes the identifier made from the timestamp, which is
\* not empty.
C1_StoredIdNonEmpty ==
    /\ \A id \in DOMAIN store :
           /\ id.t = "str" /\ id.v # <<>>
           /\ store[id].id = id
    /\ (inp.trigger = "submit" /\ ~Truthy(inp.hc)) => run.writes = 0
    /\ \A hc \in {Absent, None, StrV(<<>>)}, ts \in 0..MaxTime :
           LET caso == CasoBioetico(Kwargs([historia_clinica |-> hc], NoNivel), ts)
           IN  /\ caso.k = "ret"
               /\ caso.v.historia_clinica = CasoId(ts)
               /\ caso.v.historia_clinica.t = "str"
               /\ caso.v.historia_clinica.v # <<>>

\* A submission has just written its report to the store.
C1_Witness ==
    /\ inp.trigger = "submit" /\ run.end = "rerun" /\ run.writes = 1
    /\ inp.hc \in DOMAIN store
    /\ store[inp.hc] = ss.reporte

\* C2: the submit handler, on an empty identifier, shows the validation error
\* and does nothing else: no CasoBioetico, no report, no store write, and
\* reporte, case_id, chat_history and temp_dir as they were.
C2_EmptyIdBlocks ==
    [][EmptySubmit =>
          /\ run'.st_error
          /\ ~run'.built /\ ~run'.report_made /\ run'.writes = 0
          /\ run'.end = "running"
          /\ store' = store
          /\ ss'.reporte = ss.reporte /\ ss'.case_id = ss.case_id
          /\ ss'.chat_history = ss.chat_history /\ ss'.temp_dir = ss.temp_dir]_vars

\* The validation error is up while a case with a chat is in the session.
C2_Witness ==
    /\ inp.trigger = "submit" /\ ~Truthy(inp.hc)
    /\ run.pos = "report" /\ run.st_error
    /\ ss.reporte # None /\ ss.chat_history # <<>> /\ store # <<>>

\* C6: a chat action with an API key takes the chat history from h to h, the
\* user's question, the assistant's reply, and what it writes to the store
\* is that sequence.
C6_ChatAppendsTurns ==
    [][ChatAction =>
          LET q == IF inp.trigger = "chat" THEN inp.q ELSE ss.last_question
          IN  /\ run'.asked
              /\ ss'.chat_history =
                     ss.chat_history \o
                         <<Turn("user", q), Turn("assistant", run'.reply)>>
              /\ store' # store =>
                     store'[ss.case_id].historial = ss'.chat_history]_vars

\* The run has just built the PDF of the session's case.
PdfBuilt == run.pdf # None /\ run.end = "running" /\ run.pos = "chat"

\* C7: the PDF built for the session's case by the run that follows an
\* action has a paragraph for every turn of the chat so far, in order, and
\* none for the chart payloads.
C7_PdfRendersChat ==
    (PdfBuilt /\ inp.trigger = "rerun") =>
        /\ Len(run.pdf.chat) = Len(ss.chat_history)
        /\ \A i \in 1..Len(ss.chat_history) :
               /\ run.pdf.chat[i].content = ss.chat_history[i].content
               /\ run.pdf.chat[i].quien =
                      IF ss.chat_history[i].role = "user"
                      THEN "Usuario" ELSE "Asistente IA"
        /\ \A i \in 1..Len(run.pdf.campos) :
               run.pdf.campos[i][1] \notin {"radar_chart_json", "stats_chart_json"}

\* C8: no run ends with the exception of a failed store write or a failed
\* chart generation.
C8_CollaboratorFailuresCaught ==
    run.end = "raise" => run.exc \notin {"StoreError", "NotFound", "ChartError"}

(***************************************************************************)
(* Claims about the case record and its report.                            *)
(***************************************************************************)
\* C11: the summary of the report is 'Paciente <name>, <age> años, género
\* <gender>, condición <condition>.', followed by ' Neonato de <weeks> sem.'
\* exactly when the case's weeks are greater than 0.
C11_ResumenNeonato ==
    call.fn = "generar_reporte_completo" =>
        LET caso == call.caso
            base == "Paciente " \o Str(caso.nombre_paciente) \o ", "
                        \o ToString(caso.edad) \o " años, género "
                        \o Str(caso.genero) \o ", condición "
                        \o Str(caso.condicion) \o "."
            resumen == call.res.v.resumen
        IN  IF caso.semanas_gestacion > 0
            THEN resumen = base \o " Neonato de "
                               \o ToString(caso.semanas_gestacion) \o " sem."
            ELSE resumen = base

\* A report of a case of 30 weeks, and one of a case of 0 weeks.
C11_Witness ==
    /\ call.fn = "generar_reporte_completo"
    /\ call.kwargs["semanas_gestacion"] = IntV(30)
    /\ call.kwargs["nombre_paciente"] = TextV("Ana")
    /\ call.res.v.resumen =
           "Paciente Ana, 7 años, género N/A, condición Estable. Neonato de 30 sem."

\* The stakeholder has none of its four score fields in the input.
SinNiveles(kwargs, prefix) ==
    \A pr \in DOMAIN principios :
        (Nivel_ \o principios[pr] \o <<"_">> \o prefijos[prefix])
            \notin DOMAIN kwargs["nivel"]

\* C12: a CasoBioetico has exactly the three perspectives medico, familia
\* and comite, each with exactly the four integer scores autonomia,
\* beneficencia, no_maleficencia and justicia, all 0 for a stakeholder whose
\* score fields are missing from the input.
C12_TresPerspectivas ==
    call.fn = "generar_reporte_completo" =>
        LET p == call.caso.perspectivas
        IN  /\ DOMAIN p = {"medico", "familia", "comite"}
            /\ \A prefix \in DOMAIN p :
                 /\ DOMAIN p[prefix] =
                        {"autonomia", "beneficencia", "no_maleficencia", "justicia"}
                 /\ \A pr \in DOMAIN p[prefix] : p[prefix][pr] \in Int
                 /\ SinNiveles(call.kwargs, prefix) =>
                        \A pr \in DOMAIN p[prefix] : p[prefix][pr] = 0

\* A case with the scores of the medical team only: 5, '17', None, -4.
C12_Witness ==
    /\ call.fn = "generar_reporte_completo"
    /\ ~SinNiveles(call.kwargs, "medico")
    /\ SinNiveles(call.kwargs, "familia")
    /\ call.caso.perspectivas.medico =
           [autonomia |-> 5, beneficencia |-> 17, no_maleficencia |-> 0,
            justicia |-> -4]
    /\ call.caso.perspectivas.familia = Perspectiva(0)

(***************************************************************************)
(* Claims about the life of a report.                                      *)
(***************************************************************************)
\* A submission got through: the handler reached its st.rerun() with the
\* store there.
SubmitDone ==
    /\ inp.trigger = "submit" /\ run.pos = "end" /\ run.end = "rerun"
    /\ run.report_made /\ db

\* C13: after a submission that got through with the store available, the
\* session's report is a new one with an empty analysis and an empty chat
\* history, the session's chat history is empty, and the document kept under
\* the submitted identifier is that report, whatever was kept there before.
C13_SubmitOverwrites ==
    SubmitDone =>
        /\ ss.reporte # None
        /\ ss.reporte.id = inp.hc /\ ss.case_id = inp.hc
        /\ ss.reporte.analisis = "" /\ ss.reporte.historial = <<>>
        /\ ss.chat_history = <<>>
        /\ run.writes = 1
        /\ inp.hc \in DOMAIN store /\ store[inp.hc] = ss.reporte

\* A submission has just replaced a document that had chat turns: the new
\* document has none.
C13_Witness ==
    /\ SubmitDone /\ run.overwrote
    /\ store[inp.hc].analisis = "" /\ store[inp.hc].historial = <<>>

\* The session's report is after the step what it was, but for field f.
SameReportBut(f) ==
    IF ss.reporte = None THEN ss'.reporte = None
    ELSE /\ ss'.reporte # None
         /\ [ss'.reporte EXCEPT ![f] = ss.reporte[f]] = ss.reporte

\* The stored documents are after the step what they were, but for field f.
SameDocsBut(f) ==
    /\ DOMAIN store' = DOMAIN store
    /\ \A id \in DOMAIN store :
           [store'[id] EXCEPT ![f] = store[id][f]] = store[id]

\* C14: a report once created changes in two fields only.  No step of a run
\* started by the regenerate button changes anything of the session's report
\* or of a stored document but 'Análisis Deliberativo (IA)', and it leaves the
\* session's chat history alone; no step of a run started by a chat action
\* changes the session's report at all, nor anything of a stored document
\* but 'Historial del Chat de Deliberación'.  Both leave case_id alone.
C14_OnlyTwoFieldsChange ==
    [][/\ (run.end = "running" /\ inp.trigger = "regen") =>
              /\ SameReportBut("analisis") /\ SameDocsBut("analisis")
              /\ ss'.chat_history = ss.chat_history
              /\ ss'.case_id = ss.case_id
       /\ (run.end = "running" /\ inp.trigger \in {"chat", "guided"}) =>
              /\ ss'.reporte = ss.reporte /\ SameDocsBut("historial")
              /\ ss'.case_id = ss.case_id]_vars

\* The analysis has just been regenerated and written for a case whose stored
\* document holds chat turns: both actions have acted on one document.
C14_Witness ==
    /\ inp.trigger = "regen" /\ run.end = "rerun" /\ run.writes = 1
    /\ ss.case_id \in DOMAIN store
    /\ ss.reporte.analisis # ""
    /\ store[ss.case_id].analisis = ss.reporte.analisis
    /\ store[ss.case_id].historial # <<>>
    /\ store[ss.case_id].historial = ss.chat_history

\* The submit handler of this run has made the session's report.
ReportMade == inp.trigger = "submit" /\ run.report_made

\* C16: in the report a submission makes, each of the twelve scores is the
\* value of the slider of its principle and stakeholder, and each key
\* _extract_perspective looks up is among the keys the form data has.
C16_ScoresAreSliderValues ==
    ReportMade =>
        \A p_name \in DOMAIN prefijos, i \in 1..Len(Principles) :
            /\ ss.reporte.AnalisisMultiperspectiva[p_name][Principles[i]]
                   = inp.sliders[p_name][i]
            /\ (Nivel_ \o principios[Principles[i]] \o <<"_">> \o prefijos[p_name])
                   \in DOMAIN Nivel(inp.sliders, Len(p_names))

\* The document kept under the session's case_id has the session's analysis
\* and the session's chat history.
Agree ==
    ss.case_id # None =>
        /\ ss.case_id \in DOMAIN store
        /\ store[ss.case_id].analisis = ss.reporte.analisis
        /\ store[ss.case_id].historial = ss.chat_history

\* The run is in the handler of the action that started it: a submission
\* with an identifier, or a regeneration or a chat action with an API key.
ActionStep ==
    /\ run.end = "running"
    /\ \/ run.pos = "submit" /\ inp.trigger = "submit" /\ Truthy(inp.hc)
       \/ run.pos = "report" /\ inp.trigger = "regen" /\ api_key /\ Agree
       \/ ChatAction /\ Agree

\* The exceptions of the collaborators: the chart library, the store.
CollaboratorFailures == {"ChartError", "StoreError", "NotFound"}

\* C17: with the store there, the handler of an action in which no
\* collaborator failed leaves the stored document in agreement with the
\* session on the analysis and on the chat history, having issued exactly
\* one store write.
C17_StoreAgreesWithSession ==
    [][(db /\ ActionStep /\ run'.exc \notin CollaboratorFailures) =>
          (Agree' /\ run'.writes = 1)]_vars

\* C19: when a run is over, however it ended, a session that has a report
\* has a temp_dir, and its case_id is the report's 'ID del Caso'.
C19_SessionConsistent ==
    (run.pos = "end" /\ ss.reporte # None) =>
        /\ ss.temp_dir # None
        /\ ss.case_id = ss.reporte.id

(***************************************************************************)
(* Claims about the dilemmas.                                              *)
(***************************************************************************)
\* x is the string of an entry of dilemas_opciones.
EnLista(x) == \E d \in 1..Len(dilemas_opciones) : x = TextV(dilemas_opciones[d])

\* C15: the selected dilemma of every report a submission creates is an entry
\* of dilemas_opciones, and a CasoBioetico built without a 'dilema_etico' gets
\* the entry declared first, "Dilemas Éticos en Neonatología".
C15_DilemaFromList ==
    /\ ss.reporte # None => EnLista(ss.reporte.dilema)
    /\ \A hc \in FormIds, ts \in 0..MaxTime :
           LET caso == CasoBioetico(Kwargs([historia_clinica |-> hc], NoNivel), ts)
           IN  /\ caso.k = "ret"
               /\ caso.v.dilema_etico = TextV("Dilemas Éticos en Neonatología")

\* A report whose selected dilemma is the last entry of the list while the AI
\* had suggested the third.
C15_Witness ==
    /\ ss.reporte # None
    /\ ss.reporte.dilema = TextV("Conflictos de Interés")
    /\ ss.reporte.dilema_sugerido = StrV(Caracteres["Consentimiento Informado"])

\* The run is in tab_analisis, on the button of the clinical-history
\* analysis.
ClinicalStep ==
    run.end = "running" /\ run.pos = "submit" /\ inp.trigger = "clinical"

\* The run is in tab_analisis, on the button that asks for a suggestion from
\* the description.
SuggestStep ==
    run.end = "running" /\ run.pos = "submit" /\ inp.trigger = "suggest"

\* x is the text of an entry of dilemas_opciones.
EntradaDeLista(x) ==
    \E d \in 1..Len(dilemas_opciones) : x = StrV(Caracteres[dilemas_opciones[d]])

\* C18 as it was stated: on both paths the AI's text becomes the suggested
\* dilemma as it is, with no check against the list.  Whenever Gemini has
\* answered, the suggestion button leaves its answer, stripped, as the
\* suggested dilemma, and the clinical-history analysis leaves what its
\* answer has on the line of the heading.
C18_StoredAsIs ==
    [][/\ (SuggestStep /\ run'.reply # "") =>
              ss'.dilema_sugerido = StrV(Strip(Caracteres[run'.reply]))
       /\ (ClinicalStep /\ run'.reply # ""
             /\ suggested_dilemma_raw(Caracteres[run'.reply]) # None) =>
              ss'.dilema_sugerido = suggested_dilemma_raw(Caracteres[run'.reply])]_vars

\* C18, amended: the suggestion button leaves Gemini's answer, stripped, as
\* the suggested dilemma with no check against the list; the
\* clinical-history analysis changes the suggested dilemma only to an entry
\* of dilemas_opciones, one whose lower case occurs in the lower case of the
\* analysis it has kept; and the report a submission makes carries the
\* suggested dilemma of the session as it is.
C18_OnlyButtonUnchecked ==
    [][/\ (SuggestStep /\ run'.reply # "") =>
              ss'.dilema_sugerido = StrV(Strip(Caracteres[run'.reply]))
       /\ ClinicalStep =>
              \/ ss'.dilema_sugerido = ss.dilema_sugerido
              \/ /\ EntradaDeLista(ss'.dilema_sugerido)
                 /\ Contains(Lower(ss'.dilema_sugerido.v),
                             Lower(Caracteres[ss'.ai_clinical_analysis_output]))
       /\ (run.end = "running" /\ run.pos = "submit" /\ run'.report_made) =>
              ss'.reporte.dilema_sugerido = ss.dilema_sugerido]_vars

\* A report whose suggested dilemma is the sentence llamar_gemini returns on
\* a connection error, made after a clinical-history analysis that named a
\* dilemma not of the list and so left the suggestion as it was.
C18_Witness ==
    /\ ss.reporte # None
    /\ ss.reporte.dilema_sugerido = StrV(Caracteres[ErrConexion])
    /\ ss.reporte.analisis_hc = TextV(TextoOtro)

============================================================================
